---- MODULE Spec2Model ----
(***************************************************************************)
(* The evolutionary engine of pyanimats (src/evolve.py): class Evolution   *)
(* (__init__, select, record, new_gen, run, save_checkpoint) and           *)
(* load_checkpoint, as a state machine.  One process at a time owns an     *)
(* Evolution object; the checkpoint file outlives the process.             *)
(***************************************************************************)
EXTENDS Integers, Sequences, FiniteSets, TLC

(***************************************************************************)
(* Bounds of the model.                                                    *)
(***************************************************************************)
MaxNgen == 2          \* experiment.ngen ranges over 0..MaxNgen
MaxPop == 2           \* the initial population has 0..MaxPop animats
MaxTicks == 2         \* the wall clock stops advancing after MaxTicks minutes
MaxRuns == 2          \* run() is called at most MaxRuns times on one Evolution
MaxResumes == 1       \* at most MaxResumes processes are started from the file
MaxK == 2             \* a direct select(animats, k) call has k in 0..MaxK

(***************************************************************************)
(* Program constants.                                                      *)
(***************************************************************************)
MINUTES == 60         \* constants.MINUTES
Inf == -1             \* float('inf'), compared only through GreaterEq
None == <<>>          \* Python's None, also the parent of a generation-0 animat

(***************************************************************************)
(* The two random number generators.  A generator is a deterministic       *)
(* function of its state: each draw returns a value computed from the      *)
(* state and advances the state.                                           *)
(***************************************************************************)
PyMod == 11           \* number of states of a random.Random
PyStep == 3
PyDen == 4            \* random() returns RandomOut/PyDen, in [0, 1)
CMod == 3             \* number of states of the c_animat generator
NumGenomes == 3       \* genomes are 0..NumGenomes-1

PyStates == 0 .. PyMod - 1
CStates == 0 .. CMod - 1
Genomes == 0 .. NumGenomes - 1

PyNext(s) == (s + PyStep) % PyMod
\* random.Random.choice(seq): the 1-based index drawn in state s
ChoiceOut(s, n) == (s % n) + 1
\* random.Random.random(): the numerator of the float drawn in state s
RandomOut(s) == s % PyDen
CNext(s) == (s + 1) % CMod
\* animat.mutate(): the genome after a mutation drawn in generator state s
MutateOut(genome, s) == (genome + s) % NumGenomes

(***************************************************************************)
(* The external fitness contract: a pure function of the genome.           *)
(***************************************************************************)
\* the game result of a genome: (correct, incorrect) trial counts
Trials(genome) == <<genome, (NumGenomes - 1) - genome>>
\* fitness_functions.__dict__[experiment.fitness_function]
fitness_function(genome) == Trials(genome)[1]
\* animat.fitness.set(raw): raw score and the transformed value used by select
FitnessSet(raw) == [raw |-> raw, value |-> raw * raw]
Unset == [raw |-> 0, value |-> 0]

(***************************************************************************)
(* Helpers.                                                                *)
(***************************************************************************)
Range(s) == {s[i] : i \in 1 .. Len(s)}
MaxOf(S) == CHOOSE x \in S : \A y \in S : y <= x
\* x >= y where y may be float('inf')
GreaterEq(x, y) == y # Inf /\ x >= y

VARIABLES
    self,            \* the Evolution object's attributes
    agents,          \* the animat objects of the process: id -> attributes
    c_rng,           \* the state of c_animat's generator (process-wide)
    file,            \* the content of checkpoint_file on disk
    now,             \* time(), in seconds
    pc,              \* where the process is
    gen,             \* run: the loop variable
    last_checkpoint, \* run: local
    sel,             \* select: its arguments and locals
    offspring,       \* new_gen: local
    mi,              \* new_gen: index of the next offspring to mutate
    data,            \* save_checkpoint: the dict being pickled
    err,             \* the exception that ended the call, "" if none
    saves,           \* number of save_checkpoint calls this Evolution completed
    resumed,         \* whether this Evolution was built from load_checkpoint
    resumes,         \* number of load_checkpoint calls so far
    runs,            \* number of run() calls on this Evolution
    hist,            \* generation -> state of the first (not resumed) run there
    call,            \* a call of utils.compress or of analyze's get_lods or
                     \* get_final_correct: its arguments and its result
    compiled         \* the files under ANALYSIS_DIR: path -> content

vars == <<self, agents, c_rng, file, now, pc, gen, last_checkpoint, sel,
          offspring, mi, data, err, saves, resumed, resumes, runs, hist,
          call, compiled>>

NoSel == [animats |-> <<>>, k |-> 0, max_fitness |-> 0, chosen |-> <<>>,
          ret |-> ""]
NoFile == [kind |-> "none"]
Truncated == [kind |-> "empty"]
Partial == [kind |-> "partial"]

(***************************************************************************)
(* Experiment configurations and initial populations.                      *)
(***************************************************************************)
Experiments ==
    [ngen : 0 .. MaxNgen,
     popsize : 0 .. MaxPop,
     log_interval : {1, 2},
     min_checkpoints : {0, 1},
     checkpoint_frequency : {0, 1}]

\* a generation-0 animat that has not been evaluated yet
NewAnimat(genome) ==
    [genome |-> genome, fitness |-> Unset, correct |-> 0, incorrect |-> 0,
     gen |-> 0, parent |-> None]

\* the identity of the i-th animat created for generation g
Id(g, i) == <<g, i>>

InitialAgents(n) ==
    {[a \in {Id(0, i) : i \in 1 .. n} |-> NewAnimat(genomes[a[2]])] :
        genomes \in [1 .. n -> Genomes]}

\* Evolution.__init__
Evolution(experiment, population, logbook, python_rng_state, c_rng_state, generation, fresh_random) ==
    [experiment |-> experiment,
     population |-> population,
     logbook |-> logbook,
     python_rng_state |-> python_rng_state,
     c_rng_state |-> c_rng_state,
     elapsed |-> 0,
     random |-> fresh_random,
     generation |-> generation,
     checkpoint_time_interval |->
        IF experiment.checkpoint_frequency * MINUTES <= 0 THEN Inf
        ELSE experiment.checkpoint_frequency * MINUTES,
     checkpoint_generation_interval |->
        IF experiment.min_checkpoints <= 0 THEN Inf
        ELSE experiment.ngen \div experiment.min_checkpoints]


(***************************************************************************)
(* Statistics and evaluation.                                              *)
(***************************************************************************)
\* single_fit_evaluate: the fitness function plays the game for each animat
\* of pop and the result is stored on the animat
Evaluated(animat) ==
    [animat EXCEPT !.fitness = FitnessSet(fitness_function(animat.genome)),
                   !.correct = Trials(animat.genome)[1],
                   !.incorrect = Trials(animat.genome)[2]]

evaluate(heap, pop) ==
    [a \in DOMAIN heap |-> IF a \in Range(pop) THEN Evaluated(heap[a]) ELSE heap[a]]

\* correct_stats: np.max(x, 0) over the list of (correct, incorrect) pairs is
\* the maximum along axis 0, i.e. of each column on its own
correct_stats(heap, pop) ==
    [correct |-> MaxOf({heap[a].correct : a \in Range(pop)}),
     incorrect |-> MaxOf({heap[a].incorrect : a \in Range(pop)})]

\* self.mstats.compile(population), pop not empty
compile(heap, pop) ==
    [fitness_max |-> MaxOf({heap[a].fitness.raw : a \in Range(pop)}),
     real_fitness_max |-> MaxOf({heap[a].fitness.value : a \in Range(pop)}),
     correct |-> correct_stats(heap, pop).correct,
     incorrect |-> correct_stats(heap, pop).incorrect]

\* record with generation 0 left out of the logging interval
record_SkipGen0(logbook, heap, pop, g, log_interval) ==
    IF g # 0 /\ g % log_interval = 0
    THEN Append(logbook, [gen |-> g] @@ compile(heap, pop))
    ELSE logbook

\* Evolution.record: the logbook after record(population, g)
record(logbook, heap, pop, g, log_interval) ==
    IF g % log_interval = 0
    THEN Append(logbook, [gen |-> g] @@ compile(heap, pop))
    ELSE logbook

\* np.max of an empty sequence raises ValueError
RecordRaises(pop, g, log_interval) == g % log_interval = 0 /\ pop = <<>>

(***************************************************************************)
(* Phylogeny and the checkpoint dict.                                      *)
(***************************************************************************)
RECURSIVE Chain(_, _, _)
\* the animats on a's parent chain, a included
Chain(heap, a, fuel) ==
    IF a \notin DOMAIN heap \/ fuel = 0 THEN {}
    ELSE {a} \cup Chain(heap, heap[a].parent, fuel - 1)

Ancestry(heap, pop) ==
    UNION {Chain(heap, a, Cardinality(DOMAIN heap)) : a \in Range(pop)}

\* Phylogeny(population): every animat reachable from the population, each
\* stored once, and the population's order
Phylogeny(heap, pop) ==
    [tips |-> pop, nodes |-> [a \in Ancestry(heap, pop) |-> heap[a]]]

\* list(phylogeny)
PhylogenyList(phylogeny) == phylogeny.tips

\* save_checkpoint storing the generator states given at construction instead
\* of the current ones: the Python generator's, or c_animat's
CheckpointData_StalePython(evo, heap, crng) ==
    [experiment |-> evo.experiment,
     generation |-> evo.generation,
     population |-> Phylogeny(heap, evo.population),
     logbook |-> evo.logbook,
     python_rng_state |-> evo.python_rng_state,
     c_rng_state |-> crng,
     metadata |-> [elapsed |-> evo.elapsed]]

CheckpointData_StaleC(evo, heap, crng) ==
    [experiment |-> evo.experiment,
     generation |-> evo.generation,
     population |-> Phylogeny(heap, evo.population),
     logbook |-> evo.logbook,
     python_rng_state |-> evo.random,
     c_rng_state |-> evo.c_rng_state,
     metadata |-> [elapsed |-> evo.elapsed]]

\* save_checkpoint storing the number of the generation about to begin
CheckpointData_NextGeneration(evo, heap, crng) ==
    [experiment |-> evo.experiment,
     generation |-> evo.generation + 1,
     population |-> Phylogeny(heap, evo.population),
     logbook |-> evo.logbook,
     python_rng_state |-> evo.random,
     c_rng_state |-> crng,
     metadata |-> [elapsed |-> evo.elapsed]]

\* the dict save_checkpoint pickles
CheckpointData(evo, heap, crng) ==
    [experiment |-> evo.experiment,
     generation |-> evo.generation,
     population |-> Phylogeny(heap, evo.population),
     logbook |-> evo.logbook,
     python_rng_state |-> evo.random,
     c_rng_state |-> crng,
     metadata |-> [elapsed |-> evo.elapsed]]

\* load_checkpoint on a file holding a complete pickle
load_checkpoint(content) ==
    [content EXCEPT !.population = PhylogenyList(content.population)]

\* the exception pickle.load or open raises on any other file
LoadError(f) ==
    IF f.kind = "none" THEN "FileNotFoundError"
    ELSE IF f.kind = "empty" THEN "EOFError"
    ELSE "UnpicklingError"

\* the state an uninterrupted run is compared by
Snapshot ==
    [population |-> self.population,
     ancestry |-> Phylogeny(agents, self.population).nodes,
     logbook |-> self.logbook,
     python_rng |-> self.random,
     c_rng |-> c_rng]

(***************************************************************************)
(* Initial states: a freshly constructed Evolution at generation 0.        *)
(***************************************************************************)
\* the state of a random.Random() seeded by the system, and the states given
\* to the constructor as python_rng_state and c_rng_state
FreshRandom == {PyMod - 1}
PySeeds == {0, 1, 2}
CSeeds == {0, 1}

Init ==
    /\ \E experiment \in Experiments, s \in PySeeds, c \in CSeeds,
          r \in FreshRandom :
        /\ agents \in InitialAgents(experiment.popsize)
        /\ self = Evolution(experiment,
                            [i \in 1 .. experiment.popsize |-> Id(0, i)],
                            <<>>, s, c, 0, r)
    /\ c_rng = 0
    /\ file = NoFile
    /\ now = 0
    /\ pc = "init"
    /\ gen = 0
    /\ last_checkpoint = 0
    /\ sel = NoSel
    /\ offspring = <<>>
    /\ mi = 0
    /\ data = None
    /\ err = ""
    /\ saves = 0
    /\ resumed = FALSE
    /\ resumes = 0
    /\ runs = 0
    /\ hist = <<>>
    /\ call = None
    /\ compiled = <<>>

(***************************************************************************)
(* Evolution.select                                                        *)
(***************************************************************************)
\* the acceptance test with the comparison flipped, and with a strict one
Accept_Flipped(u, value, max_fitness) == u * max_fitness >= value * PyDen

Accept_Strict(u, value, max_fitness) == u * max_fitness < value * PyDen

\* the acceptance test  random() <= candidate.fitness.value / max_fitness
\* for max_fitness > 0, with random() = u / PyDen
Accept(u, value, max_fitness) == u * max_fitness <= value * PyDen

\* line 104-105: max() of an empty sequence raises ValueError
SelectEnter(animats, k, ret) ==
    IF animats = <<>>
    THEN /\ pc' = "error"
         /\ err' = "ValueError"
         /\ sel' = [NoSel EXCEPT !.k = k, !.ret = ret]
    ELSE /\ pc' = "select"
         /\ err' = ""
         /\ sel' = [animats |-> animats, k |-> k,
                    max_fitness |->
                        MaxOf({agents[a].fitness.value : a \in Range(animats)}),
                    chosen |-> <<>>, ret |-> ret]

\* the for loop running once too often
SelectDone_OffByOne(s) == Len(s.chosen) = s.k + 1

\* line 106: for i in range(k) is exhausted
SelectDone(s) == Len(s.chosen) = s.k

\* the two draws of an attempt taken in the other order
Attempt_AcceptFirst(s0, n) ==
    [index |-> ChoiceOut(PyNext(s0), n),
     u |-> RandomOut(s0),
     random |-> PyNext(PyNext(s0))]

\* lines 109-110: the draws of one attempt on n animats from generator state
\* s0: first choice(animats), then random(); and the state they leave
Attempt(s0, n) ==
    [index |-> ChoiceOut(s0, n),
     u |-> RandomOut(PyNext(s0)),
     random |-> PyNext(PyNext(s0))]

\* one pass of the while loop, lines 108-112: choice, random, the division
SelectAttempt ==
    /\ pc = "select"
    /\ ~SelectDone(sel)
    /\ LET draws == Attempt(self.random, Len(sel.animats))
           candidate == sel.animats[draws.index]
           u == draws.u
       IN /\ self' = [self EXCEPT !.random = draws.random]
          /\ IF sel.max_fitness = 0
             THEN /\ pc' = "error"
                  /\ err' = "ZeroDivisionError"
                  /\ UNCHANGED sel
             ELSE /\ sel' = [sel EXCEPT !.chosen =
                        IF Accept(u, agents[candidate].fitness.value,
                                  sel.max_fitness)
                        THEN Append(@, candidate) ELSE @]
                  /\ UNCHANGED <<pc, err>>
    /\ UNCHANGED <<call, compiled, agents, c_rng, file, now, gen, last_checkpoint, offspring,
                   mi, data, saves, resumed, resumes, runs, hist>>

\* line 113, for a call from outside run
SelectReturn ==
    /\ pc = "select"
    /\ sel.ret = "direct"
    /\ SelectDone(sel)
    /\ pc' = "returned"
    /\ UNCHANGED <<call, compiled, self, agents, c_rng, file, now, gen, last_checkpoint, sel,
                   offspring, mi, data, err, saves, resumed, resumes, runs,
                   hist>>

(***************************************************************************)
(* Evolution.run and Evolution.new_gen                                     *)
(***************************************************************************)
\* run leaving self.random as it is
RestoredRandom_Skipped(evo) == evo.random

\* line 150: the state self.random.setstate(self.python_rng_state) sets
RestoredRandom(evo) == evo.python_rng_state

\* lines 150-165: restore the generators, evaluate and record generation 0
RunStart ==
    /\ pc \in {"init", "done"}
    /\ runs < MaxRuns
    /\ runs' = runs + 1
    /\ c_rng' = self.c_rng_state
    /\ IF self.generation = 0
          /\ RecordRaises(self.population, 0, self.experiment.log_interval)
       THEN /\ self' = [self EXCEPT !.random = RestoredRandom(self)]
            /\ pc' = "error"
            /\ err' = "ValueError"
            /\ UNCHANGED <<agents, gen, last_checkpoint>>
       ELSE /\ agents' = IF self.generation = 0
                         THEN evaluate(agents, self.population) ELSE agents
            /\ self' = [self EXCEPT
                  !.random = RestoredRandom(self),
                  !.logbook = IF self.generation = 0
                              THEN record(@, agents', self.population, 0,
                                          self.experiment.log_interval)
                              ELSE @]
            /\ last_checkpoint' = now
            /\ gen' = self.generation + 1
            /\ pc' = "loop"
            /\ err' = ""
    /\ UNCHANGED <<call, compiled, file, now, sel, offspring, mi, data, saves, resumed,
                   resumes, hist>>

\* line 167 and, when the range is not exhausted, lines 168, 127 and the
\* entry of select (line 104) with k = len(population)
LoopNext ==
    /\ pc = "loop"
    /\ gen <= self.experiment.ngen
    /\ self' = [self EXCEPT !.generation = gen]
    /\ SelectEnter(self.population, Len(self.population), "new_gen")
    /\ UNCHANGED <<call, compiled, agents, c_rng, file, now, gen, last_checkpoint, offspring,
                   mi, data, saves, resumed, resumes, runs, hist>>

\* lines 188-190: the range is exhausted
RunReturn ==
    /\ pc = "loop"
    /\ gen > self.experiment.ngen
    /\ self' = [self EXCEPT !.elapsed = @ + (now - last_checkpoint)]
    /\ pc' = "done"
    /\ UNCHANGED <<call, compiled, agents, c_rng, file, now, gen, last_checkpoint, sel,
                   offspring, mi, data, err, saves, resumed, resumes, runs,
                   hist>>

\* deepcopy(x): a new object with x's attributes; the copy of x's parent is a
\* detached copy as well, written <<g, i, 1>> for the parent <<g, i>>
DeepCopy(animat) ==
    [animat EXCEPT !.parent = IF @ = None THEN None ELSE @ \o <<1>>]

\* the offspring list being the selected animats themselves, not copies
Offspring_Aliased(selected, g) == selected

\* line 132: the list of the new objects deepcopy creates for generation g
Offspring(selected, g) == [i \in 1 .. Len(selected) |-> Id(g, i)]

\* lines 129-132: select has returned; clone the selected animats
Clone ==
    /\ pc = "select"
    /\ sel.ret = "new_gen"
    /\ SelectDone(sel)
    /\ offspring' = Offspring(sel.chosen, gen)
    /\ agents' = [a \in DOMAIN agents \cup Range(offspring') |->
                    IF a \in DOMAIN agents THEN agents[a]
                    ELSE DeepCopy(agents[sel.chosen[
                            CHOOSE i \in 1 .. Len(offspring') :
                                offspring'[i] = a]])]
    /\ mi' = 1
    /\ pc' = "mutate"
    /\ UNCHANGED <<call, compiled, self, c_rng, file, now, gen, last_checkpoint, sel, data,
                   err, saves, resumed, resumes, runs, hist>>

\* the loop body without the parent update, and without the generation update
Varied_CopiedParent(animat, parent, g, crng) ==
    [animat EXCEPT !.gen = g, !.genome = MutateOut(@, crng)]

Varied_OldGen(animat, parent, g, crng) ==
    [animat EXCEPT !.parent = parent, !.genome = MutateOut(@, crng)]

\* lines 136-140: the offspring after its parent reference and generation
\* number are set and it is mutated
Varied(animat, parent, g, crng) ==
    [animat EXCEPT !.parent = parent, !.gen = g,
                   !.genome = MutateOut(@, crng)]

\* lines 134-140, one pass of the loop over the offspring
Mutate ==
    /\ pc = "mutate"
    /\ mi <= Len(offspring)
    /\ agents' = [agents EXCEPT ![offspring[mi]] =
                    Varied(@, sel.chosen[mi], gen, c_rng)]
    /\ c_rng' = CNext(c_rng)
    /\ mi' = mi + 1
    /\ UNCHANGED <<call, compiled, self, file, now, pc, gen, last_checkpoint, sel, offspring,
                   data, err, saves, resumed, resumes, runs, hist>>

\* new_gen keeping the parents next to the offspring
NewGenResult_KeepParents(offs, parents) == parents \o offs

\* the population new_gen returns for the offspring it built (line 145)
NewGenResult(offs, parents) == offs

\* record called with the parents
RecordArg_Parents(offs, parents) == parents

\* line 144: the population handed to self.record
RecordArg(offs, parents) == offs

\* lines 142-145 and 170: evaluate and record the offspring, replace the
\* population; the generation took dt seconds of wall-clock time
EvaluateRecord ==
    /\ pc = "mutate"
    /\ mi > Len(offspring)
    /\ agents' = evaluate(agents, offspring)
    /\ self' = [self EXCEPT
          !.logbook = record(@, agents',
                             RecordArg(offspring, self.population), gen,
                             self.experiment.log_interval),
          !.population = NewGenResult(offspring, self.population)]
    /\ \E dt \in {0, MINUTES} :
          /\ now + dt <= MaxTicks * MINUTES
          /\ now' = now + dt
    /\ hist' = IF resumed \/ gen \in DOMAIN hist THEN hist
               ELSE (gen :> [population |-> self'.population,
                             ancestry |-> Phylogeny(agents', self'.population).nodes,
                             logbook |-> self'.logbook,
                             python_rng |-> self'.random,
                             c_rng |-> c_rng]) @@ hist
    /\ sel' = NoSel
    /\ offspring' = <<>>
    /\ mi' = 0
    /\ pc' = "checkpoint"
    /\ UNCHANGED <<call, compiled, c_rng, file, gen, last_checkpoint, data, err, saves,
                   resumed, resumes, runs>>

\* line 180: whether a checkpoint is due at the end of generation g
CheckpointDue(evo, g, t, last) ==
    GreaterEq(t - last, evo.checkpoint_time_interval)

\* lines 179-180, no checkpoint is due: on to the next generation
SkipCheckpoint ==
    /\ pc = "checkpoint"
    /\ ~CheckpointDue(self, gen, now, last_checkpoint)
    /\ gen' = gen + 1
    /\ pc' = "loop"
    /\ UNCHANGED <<call, compiled, self, agents, c_rng, file, now, last_checkpoint, sel,
                   offspring, mi, data, err, saves, resumed, resumes, runs,
                   hist>>

(***************************************************************************)
(* Evolution.save_checkpoint and load_checkpoint                           *)
(***************************************************************************)
\* lines 183-184 and 228-241: build the dict; open(filepath, 'wb') truncates
\* the file
SaveOpen ==
    /\ pc = "checkpoint"
    /\ CheckpointDue(self, gen, now, last_checkpoint)
    /\ self' = [self EXCEPT !.elapsed = @ + (now - last_checkpoint)]
    /\ data' = CheckpointData(self', agents, c_rng)
    /\ file' = Truncated
    /\ pc' = "dump"
    /\ UNCHANGED <<call, compiled, agents, c_rng, now, gen, last_checkpoint, sel, offspring,
                   mi, err, saves, resumed, resumes, runs, hist>>

\* line 242 and 185: pickle.dump has written everything and the file is closed
SaveDump ==
    /\ pc = "dump"
    /\ file' = [kind |-> "valid", content |-> data]
    /\ data' = None
    /\ last_checkpoint' = now
    /\ saves' = saves + 1
    /\ gen' = gen + 1
    /\ pc' = "loop"
    /\ UNCHANGED <<call, compiled, self, agents, c_rng, now, sel, offspring, mi, err, resumed,
                   resumes, runs, hist>>

\* what a file holds when the process dies while it is in state p
FileAfterKill(f, p) ==
    IF p = "dump" THEN {Truncated, Partial} ELSE {f}

\* the process dies (crash, kill, power loss) somewhere inside run: its memory
\* is gone, the file stays
Kill ==
    /\ pc \in {"loop", "select", "mutate", "checkpoint", "dump"}
    /\ pc' = "dead"
    /\ file' \in FileAfterKill(file, pc)
    /\ self' = Evolution(self.experiment, <<>>, <<>>, 0, 0, 0, 0)
    /\ agents' = <<>>
    /\ c_rng' = 0
    /\ gen' = 0
    /\ last_checkpoint' = 0
    /\ sel' = NoSel
    /\ offspring' = <<>>
    /\ mi' = 0
    /\ data' = None
    /\ UNCHANGED <<call, compiled, now, err, saves, resumed, resumes, runs, hist>>

\* a new process: load_checkpoint(checkpoint_file), then Evolution(...) from
\* the fields of the dict it returns
Resume ==
    /\ pc \in {"dead", "done", "error"}
    /\ resumes < MaxResumes
    /\ resumes' = resumes + 1
    /\ gen' = 0
    /\ last_checkpoint' = 0
    /\ sel' = NoSel
    /\ offspring' = <<>>
    /\ mi' = 0
    /\ data' = None
    /\ saves' = 0
    /\ runs' = 0
    /\ c_rng' = 0
    /\ IF file.kind = "valid"
       THEN LET checkpoint == load_checkpoint(file.content)
            IN /\ \E r \in FreshRandom :
                    self' = Evolution(checkpoint.experiment,
                                      checkpoint.population,
                                      checkpoint.logbook,
                                      checkpoint.python_rng_state,
                                      checkpoint.c_rng_state,
                                      checkpoint.generation, r)
               /\ agents' = file.content.population.nodes
               /\ resumed' = TRUE
               /\ pc' = "init"
               /\ err' = ""
       ELSE /\ pc' = "error"
            /\ err' = LoadError(file)
            /\ UNCHANGED <<self, agents, resumed>>
    /\ UNCHANGED <<call, compiled, file, now, hist>>

Next ==
    \/ RunStart
    \/ LoopNext
    \/ SelectAttempt
    \/ Clone
    \/ Mutate
    \/ EvaluateRecord
    \/ SkipCheckpoint
    \/ SaveOpen
    \/ SaveDump
    \/ RunReturn
    \/ Kill
    \/ Resume

Spec == Init /\ [][Next]_vars

(***************************************************************************)
(* Evolution.select called on its own: any population of evaluated         *)
(* animats (the empty one included), any k, any generator state.           *)
(***************************************************************************)
InitSelect ==
    /\ \E n \in 0 .. MaxPop, r \in PyStates :
        /\ agents \in {evaluate(h, [i \in 1 .. n |-> Id(0, i)]) :
                          h \in InitialAgents(n)}
        /\ self = Evolution([ngen |-> 0, popsize |-> n, log_interval |-> 1,
                             min_checkpoints |-> 0, checkpoint_frequency |-> 0],
                            [i \in 1 .. n |-> Id(0, i)], <<>>, 0, 0, 0, r)
    /\ c_rng = 0
    /\ file = NoFile
    /\ now = 0
    /\ pc = "call"
    /\ gen = 0
    /\ last_checkpoint = 0
    /\ sel = NoSel
    /\ offspring = <<>>
    /\ mi = 0
    /\ data = None
    /\ err = ""
    /\ saves = 0
    /\ resumed = FALSE
    /\ resumes = 0
    /\ runs = 0
    /\ hist = <<>>
    /\ call = None
    /\ compiled = <<>>

\* self.select(self.population, k)
SelectCall ==
    /\ pc = "call"
    /\ \E k \in 0 .. MaxK : SelectEnter(self.population, k, "direct")
    /\ UNCHANGED <<call, compiled, self, agents, c_rng, file, now, gen, last_checkpoint,
                   offspring, mi, data, saves, resumed, resumes, runs, hist>>

NextSelect ==
    \/ SelectCall
    \/ SelectAttempt
    \/ SelectReturn

SpecSelect == InitSelect /\ [][NextSelect]_vars

(***************************************************************************)
(* The claims.                                                             *)
(***************************************************************************)
\* pc values at which run is between two generations
AtBoundary == pc \in {"loop", "checkpoint", "dump", "done"}
\* pc values at which run is executing
Running == pc \in {"loop", "select", "mutate", "checkpoint", "dump"}

\* C1: a first run that returns with min_checkpoints = m > 0 (and ngen >= m)
\* has saved at least m checkpoints, whether or not the time trigger fired.
C1_MinCheckpointsSaved ==
    (/\ pc = "done"
     /\ ~resumed
     /\ self.experiment.min_checkpoints > 0
     /\ self.experiment.ngen >= self.experiment.min_checkpoints)
    => saves >= self.experiment.min_checkpoints

\* C2: once the path holds a valid checkpoint (this Evolution saved one, or
\* was loaded from it), a process that dies leaves a valid checkpoint there.
C2_SaveIsAtomic ==
    (pc = "dead" /\ (saves >= 1 \/ resumed)) => file.kind = "valid"

\* C3: an Evolution resumed from a checkpoint is, during its first run call
\* and at the end of every generation the uninterrupted run also completed
\* (the checkpoint's own and every later one), in the state the
\* uninterrupted run was in: population (order, genomes, fitness, ancestry),
\* logbook and both generator states.
C3_ResumeEquivalence ==
    (resumed /\ runs = 1 /\ AtBoundary /\ self.generation \in DOMAIN hist)
    => Snapshot = hist[self.generation]

\* a resumed run has executed a generation that the first run executed too
C3_Witness ==
    /\ resumed
    /\ pc = "checkpoint"
    /\ self.generation \in DOMAIN hist
    /\ file.kind = "valid"
    /\ file.content.generation < self.generation

\* a select call on a non-empty population whose maximum fitness is zero
AllZeroCall == sel.animats # <<>> /\ sel.max_fitness = 0

\* C4: a select call for k > 0 animats of an all-zero-fitness population ends
\* in the explicit degenerate-fitness error, not in a division by zero.
C4_DegenerateFitnessRaised ==
    (pc \in {"returned", "error"} /\ AllZeroCall /\ sel.k > 0)
    => err = "DegenerateFitnessError"

\* C5 as stated: every select call, on any population and for any k >= 0,
\* returns exactly k members of the population.
C5_AlwaysReturnsK ==
    pc \in {"returned", "error"}
    => /\ pc = "returned"
       /\ Len(sel.chosen) = sel.k
       /\ Range(sel.chosen) \subseteq Range(self.population)

\* C5 amended: select never holds more than k chosen animats, all of them
\* members of the population; a call that returns returns exactly k; a call
\* raises only on the empty population (ValueError) or, with k > 0, on an
\* all-zero population (ZeroDivisionError).
C5_ReturnsKMembers ==
    /\ pc \in {"select", "returned"}
       => /\ Len(sel.chosen) <= sel.k
          /\ Range(sel.chosen) \subseteq Range(self.population)
          /\ self.population # <<>>
    /\ pc = "returned" => Len(sel.chosen) = sel.k
    /\ pc = "error"
       => \/ self.population = <<>> /\ err = "ValueError"
          \/ AllZeroCall /\ sel.k > 0 /\ err = "ZeroDivisionError"

\* a call that returned two different animats
C5_Witness ==
    /\ pc = "returned"
    /\ sel.k >= 2
    /\ sel.chosen[1] # sel.chosen[2]
    /\ sel.max_fitness > 0

HasGen0(logbook) == \E i \in 1 .. Len(logbook) : logbook[i].gen = 0

\* C6: while run is executing or has returned, and whenever an animat of a
\* generation after 0 exists, the logbook holds a record for generation 0.
C6_Gen0Recorded ==
    /\ (Running \/ pc = "done") => HasGen0(self.logbook)
    /\ (\E a \in DOMAIN agents : a[1] > 0) => HasGen0(self.logbook)

\* a resumed run is producing offspring
C6_Witness == resumed /\ pc = "mutate" /\ mi > 1 /\ HasGen0(self.logbook)

\* C7: the population of a constructed Evolution, during and after run and
\* after a resume, has the configured size; so have the offspring.
C7_PopulationSize ==
    /\ (Running \/ pc \in {"init", "done"})
       => Len(self.population) = self.experiment.popsize
    /\ pc = "mutate" => Len(offspring) = self.experiment.popsize

\* a resumed run has replaced a population of the largest size
C7_Witness ==
    /\ resumed
    /\ pc = "checkpoint"
    /\ Len(self.population) = MaxPop
    /\ self.population[1][1] = self.generation

\* C8: the step that completes save_checkpoint leaves a file from which
\* load_checkpoint returns the configuration, generation, logbook, the two
\* generator states of that moment, and the population as the same list of
\* the same animats.
C8_RoundTrip ==
    [][(pc = "dump" /\ pc' = "loop")
       => LET checkpoint == load_checkpoint(file'.content)
          IN /\ file'.kind = "valid"
             /\ checkpoint.experiment = self.experiment
             /\ checkpoint.generation = self.generation
             /\ checkpoint.logbook = self.logbook
             /\ checkpoint.python_rng_state = self.random
             /\ checkpoint.c_rng_state = c_rng
             /\ checkpoint.population = self.population
             /\ \A a \in Range(self.population) :
                   file'.content.population.nodes[a] = agents[a]]_vars

\* a checkpoint of a later generation has just been written
C8_Witness ==
    /\ pc = "loop"
    /\ file.kind = "valid"
    /\ saves >= 1
    /\ file.content.generation = self.generation
    /\ self.generation >= 2
    /\ self.random # self.python_rng_state

\* C9: the generation numbers of the logbook's records strictly increase.
C9_LogbookIncreasing ==
    \A i \in 1 .. Len(self.logbook) - 1 :
        self.logbook[i].gen < self.logbook[i + 1].gen

\* the maximum of a set of pairs under tuple (lexicographic) ordering
TupleMax(S) ==
    CHOOSE p \in S : \A q \in S :
        q[1] < p[1] \/ (q[1] = p[1] /\ q[2] <= p[2])

\* C10: the correct and incorrect statistics recorded for the current
\* generation are the (correct, incorrect) pair of one animat of the
\* population, the maximum pair under tuple ordering.
C10_PairedMax ==
    (/\ AtBoundary
     /\ self.logbook # <<>>
     /\ self.logbook[Len(self.logbook)].gen = self.generation)
    => LET last == self.logbook[Len(self.logbook)]
       IN <<last.correct, last.incorrect>> =
              TupleMax({<<agents[a].correct, agents[a].incorrect>> :
                           a \in Range(self.population)})

\* C11: every call of run sets self.random and the c_animat generator to the
\* states given at construction, and a generator is advanced only inside a
\* run call that has done so: by a selection attempt or by a mutation.
C11_RestoreBeforeDraws ==
    [][/\ (pc \in {"init", "done"} /\ runs' = runs + 1)
            => /\ self'.random = self.python_rng_state
               /\ c_rng' = self.c_rng_state
       /\ (runs' = runs /\ pc' \notin {"dead", "init"}
             /\ self'.random # self.random)
            => runs >= 1 /\ pc = "select"
       /\ (runs' = runs /\ pc' \notin {"dead", "init"} /\ c_rng' # c_rng)
            => runs >= 1 /\ pc = "mutate"]_vars

\* a resumed run, restored to the saved generator states, about to draw
C11_Witness ==
    /\ resumed
    /\ pc = "select"
    /\ sel.chosen = <<>>
    /\ self.generation >= 2
    /\ self.random = self.python_rng_state
    /\ self.random \notin FreshRandom
    /\ c_rng = self.c_rng_state

\* a's parent chain in heap has exactly g links: every animat on it is one
\* generation younger than its parent, and the last is a generation-0
\* animat whose parent is None
RECURSIVE Lineage(_, _, _)
Lineage(heap, a, g) ==
    /\ a \in DOMAIN heap
    /\ heap[a].gen = g
    /\ IF g = 0 THEN heap[a].parent = None
       ELSE heap[a].parent # None /\ Lineage(heap, heap[a].parent, g - 1)

\* C12: between generations every animat of self.population has a parent
\* chain of exactly self.generation links, each parent one generation older
\* than its child (so the chain has no cycle), ending at a generation-0
\* animat with no parent.
C12_AncestryChains ==
    pc \in {"init", "loop", "checkpoint", "dump", "done"}
    => \A a \in Range(self.population) :
           Lineage(agents, a, self.generation)

\* a full population MaxNgen generations deep
C12_Witness ==
    /\ pc = "checkpoint"
    /\ self.generation = MaxNgen
    /\ Len(self.population) = MaxPop
    /\ \A a \in Range(self.population) : agents[a].parent # None

\* C13: load_checkpoint on a checkpoint file that exists but cannot be
\* unpickled ends in CorruptCheckpointError and hands no state to the caller.
C13_CorruptCheckpointError ==
    [][(resumes' = resumes + 1 /\ file.kind \in {"empty", "partial"})
         => /\ pc' = "error"
            /\ err' = "CorruptCheckpointError"
            /\ self' = self]_vars

(***************************************************************************)
(* utils.compress                                                          *)
(***************************************************************************)
(* A string is modelled as the sequence of its pieces: a number followed   *)
(* by a unit letter, a sign, or one copy of the pad string.                *)
(***************************************************************************)
MaxWeeks == 1         \* durations span 0..MaxWeeks whole weeks

TIME_MINUTE == 60
TIME_HOUR == 3600
TIME_DAY == 86400
TIME_WEEK == 604800

\* u'{}w'.format(weeks) and its like
Format(n, unit) == [kind |-> "count", n |-> n, text |-> unit]

SignPiece(text) == [kind |-> "sign", n |-> 0, text |-> text]

PadPiece(text) == [kind |-> "pad", n |-> 0, text |-> text]

\* pad.join(parts), line 76
RECURSIVE Join(_, _)
Join(parts, pad) ==
    IF Len(parts) <= 1 THEN parts
    ELSE <<Head(parts)>> \o (IF pad = "" THEN <<>> ELSE <<PadPiece(pad)>>)
             \o Join(Tail(parts), pad)

\* lines 73-74
OrZero(parts) == IF parts = <<>> THEN <<Format(0, "s")>> ELSE parts

\* lines 46-76 for a number t of whole seconds: timedelta(seconds=t) has
\* days < 0 exactly when t < 0, and seconds + days * 86400 = t
compress(t, sign, pad) ==
    LET signed == IF sign THEN <<SignPiece(IF t < 0 THEN "-" ELSE "+")>>
                  ELSE <<>>
        weeks == t \div TIME_WEEK
        s1 == t % TIME_WEEK
        days == s1 \div TIME_DAY
        s2 == s1 % TIME_DAY
        hours == s2 \div TIME_HOUR
        s3 == s2 % TIME_HOUR
        minutes == s3 \div TIME_MINUTE
        seconds == s3 % TIME_MINUTE
        parts == signed
                 \o (IF weeks # 0 THEN <<Format(weeks, "w")>> ELSE <<>>)
                 \o (IF days # 0 THEN <<Format(days, "d")>> ELSE <<>>)
                 \o (IF hours # 0 THEN <<Format(hours, "h")>> ELSE <<>>)
                 \o (IF minutes # 0 THEN <<Format(minutes, "m")>> ELSE <<>>)
                 \o (IF seconds # 0 THEN <<Format(seconds, "s")>> ELSE <<>>)
    IN Join(OrZero(parts), pad)

\* the durations compress is called on: each unit absent or at its largest
\* count, and two negative ones
Durations ==
    {w * TIME_WEEK + d * TIME_DAY + h * TIME_HOUR + m * TIME_MINUTE + s :
        w \in 0 .. MaxWeeks, d \in {0, 6}, h \in {0, 23}, m \in {0, 59},
        s \in {0, 59}} \cup {-1, -TIME_WEEK}

Pads == {"", " "}

InitCompress ==
    /\ call \in [t : Durations, sign : BOOLEAN, pad : Pads, result : {None}]
    /\ compiled = <<>>
    /\ \E r \in FreshRandom :
        self = Evolution([ngen |-> 0, popsize |-> 0, log_interval |-> 1,
                          min_checkpoints |-> 0, checkpoint_frequency |-> 0],
                         <<>>, <<>>, 0, 0, 0, r)
    /\ agents = <<>>
    /\ c_rng = 0
    /\ file = NoFile
    /\ now = 0
    /\ pc = "compress"
    /\ gen = 0
    /\ last_checkpoint = 0
    /\ sel = NoSel
    /\ offspring = <<>>
    /\ mi = 0
    /\ data = None
    /\ err = ""
    /\ saves = 0
    /\ resumed = FALSE
    /\ resumes = 0
    /\ runs = 0
    /\ hist = <<>>

\* utils.compress(t, sign, pad)
Compress ==
    /\ pc = "compress"
    /\ call' = [call EXCEPT !.result = compress(call.t, call.sign, call.pad)]
    /\ pc' = "compressed"
    /\ UNCHANGED <<compiled, self, agents, c_rng, file, now, gen, last_checkpoint, sel,
                   offspring, mi, data, err, saves, resumed, resumes, runs,
                   hist>>

NextCompress == Compress

SpecCompress == InitCompress /\ [][NextCompress]_vars

\* the rank of a unit letter in the order w, d, h, m, s and the number of
\* seconds and the exclusive bound of its count (0: none)
UnitRank(u) == CASE u = "w" -> 1 [] u = "d" -> 2 [] u = "h" -> 3
                 [] u = "m" -> 4 [] u = "s" -> 5

UnitSeconds(u) == CASE u = "w" -> TIME_WEEK [] u = "d" -> TIME_DAY
                    [] u = "h" -> TIME_HOUR [] u = "m" -> TIME_MINUTE
                    [] u = "s" -> 1

UnitBound(u) == CASE u = "w" -> 0 [] u = "d" -> 7 [] u = "h" -> 24
                  [] u = "m" -> 60 [] u = "s" -> 60

RECURSIVE WeightedSum(_)
WeightedSum(units) ==
    IF units = <<>> THEN 0
    ELSE Head(units).n * UnitSeconds(Head(units).text)
         + WeightedSum(Tail(units))

IsCount(piece) == piece.kind = "count"

\* C14: the result of compress holds at least one unit component; its unit
\* components are the nonzero counts in the order w, d, h, m, s, separated
\* by pad, each below its unit's bound, with weighted sum t; and a zero
\* duration gives '0s' whatever sign and pad are.
C14_CompressUnits ==
    pc = "compressed"
    => LET units == SelectSeq(call.result, IsCount)
       IN /\ units # <<>>
          /\ \A i \in 1 .. Len(units) :
                /\ units[i].n # 0 \/ call.t = 0
                /\ UnitBound(units[i].text) = 0
                     \/ units[i].n < UnitBound(units[i].text)
                /\ i < Len(units)
                     => UnitRank(units[i].text) < UnitRank(units[i + 1].text)
          /\ WeightedSum(units) = call.t
          /\ \E head \in {<<>>, <<SignPiece("+")>>, <<SignPiece("-")>>} :
                call.result = Join(head \o units, call.pad)
          /\ call.t = 0 => call.result = <<Format(0, "s")>>

\* C15: the offspring new_gen clones are objects that did not exist before,
\* all distinct; and the population a generation leaves in self.population
\* consists of them only: no member of the previous population, each with
\* generation number gen, the i-th having the i-th selected animat, a member
\* of the previous population, as its parent.
C15_GenerationalReplacement ==
    [][/\ (pc = "select" /\ pc' = "mutate")
            => /\ Len(offspring') = Len(sel.chosen)
               /\ Range(offspring') \cap DOMAIN agents = {}
               /\ Cardinality(Range(offspring')) = Len(offspring')
       /\ (pc = "mutate" /\ pc' = "checkpoint")
            => /\ self'.population = offspring
               /\ self'.generation = gen
               /\ Range(self'.population) \cap Range(self.population) = {}
               /\ Cardinality(Range(self'.population))
                    = Len(self'.population)
               /\ \A i \in 1 .. Len(self'.population) :
                     /\ agents'[self'.population[i]].gen = gen
                     /\ agents'[self'.population[i]].parent = sel.chosen[i]
                     /\ sel.chosen[i] \in Range(self.population)]_vars

\* a replaced population whose two members are copies of the same parent
C15_Witness ==
    /\ pc = "checkpoint"
    /\ self.generation >= 1
    /\ Len(self.population) = MaxPop
    /\ self.population[1] # self.population[2]
    /\ agents[self.population[1]].parent = agents[self.population[2]].parent
    /\ agents[self.population[1]].gen = self.generation

\* the generations 0..g that fall on the logging interval, in order
RECURSIVE LoggedGens(_, _)
LoggedGens(g, log_interval) ==
    IF g < 0 THEN <<>>
    ELSE IF g % log_interval = 0
    THEN Append(LoggedGens(g - 1, log_interval), g)
    ELSE LoggedGens(g - 1, log_interval)

\* C16: in the run call that takes an Evolution to generation ngen the
\* logbook holds, after each generation g, exactly one record for every
\* generation of 0..g on the logging interval and none for any other, in
\* order; the record of generation g is the statistics of the population of
\* generation g; and when run returns this is so for 0..ngen.
C16_LoggingInterval ==
    (runs = 1 /\ AtBoundary)
    => LET log_interval == self.experiment.log_interval
           logbook == self.logbook
       IN /\ [i \in 1 .. Len(logbook) |-> logbook[i].gen]
                = LoggedGens(self.generation, log_interval)
          /\ self.generation % log_interval = 0
               => logbook[Len(logbook)]
                    = [gen |-> self.generation]
                        @@ compile(agents, self.population)
          /\ pc = "done" => self.generation = self.experiment.ngen

\* a run that skipped generation 1 and logged generations 0 and 2, where the
\* population recorded last differs in its statistics from its parents
C16_Witness ==
    /\ runs = 1
    /\ pc = "done"
    /\ self.experiment.log_interval = 2
    /\ self.generation = 2
    /\ Len(self.logbook) = 2
    /\ self.logbook[2].fitness_max # self.logbook[1].fitness_max

(***************************************************************************)
(* Evolution.run left to finish: the process is not killed, and the        *)
(* interpreter goes on executing run's code as long as there is a next     *)
(* statement.                                                              *)
(***************************************************************************)
RunStep ==
    \/ LoopNext
    \/ SelectAttempt
    \/ Clone
    \/ Mutate
    \/ EvaluateRecord
    \/ SkipCheckpoint
    \/ SaveOpen
    \/ SaveDump
    \/ RunReturn

NextRun ==
    \/ RunStart
    \/ RunStep
    \/ Resume

\* a freshly constructed Evolution; log_interval and min_checkpoints, which
\* have no part in how run proceeds (lines 120-123, 179-180), are fixed
InitRun ==
    /\ Init
    /\ self.experiment.log_interval = 1
    /\ self.experiment.min_checkpoints = 0

SpecRun == InitRun /\ [][NextRun]_vars /\ WF_vars(RunStep)

\* C17: a run call that is executing returns, unless select met a population
\* whose maximum fitness is zero; it enters the generations one by one in
\* increasing order, and when it has returned self.generation is ngen.
C17_RunTerminates ==
    /\ Running ~> (pc = "done" \/ (pc = "error" /\ AllZeroCall))
    /\ [][(pc = "loop" /\ pc' = "select")
            => self'.generation = self.generation + 1]_vars
    /\ [](pc = "done" => self.generation = self.experiment.ngen)

\* a resumed run that has returned after executing a generation
C17_Witness ==
    /\ resumed
    /\ pc = "done"
    /\ self.generation = MaxNgen
    /\ self.generation > file.content.generation

\* C18: within a generation the generators are consumed in a fixed order.
\* An attempt of select takes the choice draw and then the acceptance draw
\* from self.random, while no animat of the new generation has been mutated;
\* a mutation happens after select has returned, on the next offspring in
\* index order; evaluation and recording come when all offspring are
\* mutated; the checkpoint file is written only when new_gen has returned
\* and the population of the current generation is in place, and the write
\* consumes no draw.
C18_DrawOrder ==
    [][/\ (pc = "select" /\ pc' = "select" /\ self'.random # self.random
             /\ sel.max_fitness > 0)
            => LET n == Len(sel.animats)
                   candidate == sel.animats[ChoiceOut(self.random, n)]
                   u == RandomOut(PyNext(self.random))
                   accepted == u * sel.max_fitness
                                 <= agents[candidate].fitness.value * PyDen
               IN /\ self'.random = PyNext(PyNext(self.random))
                  /\ sel'.chosen = IF accepted
                                   THEN Append(sel.chosen, candidate)
                                   ELSE sel.chosen
                  /\ c_rng' = c_rng
                  /\ \A a \in DOMAIN agents : agents[a].gen # gen
       /\ (pc = "mutate" /\ pc' = "mutate" /\ mi' # mi)
            => /\ SelectDone(sel)
               /\ mi' = mi + 1
               /\ c_rng' = CNext(c_rng)
               /\ self'.random = self.random
               /\ agents'[offspring[mi]].gen = gen
               /\ \A j \in 1 .. Len(offspring) :
                     agents[offspring[j]].gen = gen <=> j < mi
       /\ (pc = "mutate" /\ pc' = "checkpoint")
            => /\ \A j \in 1 .. Len(offspring) :
                     agents[offspring[j]].gen = gen
               /\ self'.random = self.random
               /\ c_rng' = c_rng
       /\ (file' # file /\ pc' # "dead")
            => /\ pc \in {"checkpoint", "dump"}
               /\ offspring = <<>>
               /\ self.generation = gen
               /\ \A a \in Range(self.population) :
                     agents[a].gen = self.generation
               /\ self'.random = self.random
               /\ c_rng' = c_rng]_vars

\* the first offspring of the second generation mutated, the last not yet
C18_Witness ==
    /\ pc = "mutate"
    /\ gen = 2
    /\ mi = MaxPop
    /\ Len(offspring) = MaxPop
    /\ agents[offspring[1]].gen = gen
    /\ agents[offspring[MaxPop]].gen # gen
    /\ c_rng # self.c_rng_state

\* C19: an attempt of select changes nothing but the state of self.random
\* and select's own list of chosen animats: the c_animat generator, the
\* population and every animat stay as they are.  A mutation changes nothing
\* but the c_animat generator and the one offspring it is applied to:
\* self.random, the Evolution object, the population, the selected parents
\* and every other animat stay as they are, and the offspring keeps its
\* fitness.
C19_IndependentDomains ==
    [][/\ (pc = "select" /\ pc' \in {"select", "error"})
            => /\ c_rng' = c_rng
               /\ agents' = agents
               /\ [self' EXCEPT !.random = self.random] = self
               /\ sel'.animats = sel.animats
       /\ (pc = "mutate" /\ pc' = "mutate" /\ mi' # mi)
            => /\ self' = self
               /\ sel' = sel
               /\ DOMAIN agents' = DOMAIN agents
               /\ \A a \in DOMAIN agents :
                     a # offspring[mi] => agents'[a] = agents[a]
               /\ offspring[mi] \notin
                     Range(self.population) \cup Range(sel.chosen)
               /\ agents'[offspring[mi]].fitness
                     = agents[offspring[mi]].fitness]_vars

\* an offspring whose genome mutation has changed, next to its parent
C19_Witness ==
    /\ pc = "mutate"
    /\ mi > 1
    /\ agents[offspring[1]].parent = sel.chosen[1]
    /\ agents[offspring[1]].genome # agents[sel.chosen[1]].genome
    /\ c_rng # self.c_rng_state
    /\ self.random # self.python_rng_state

\* C20: with max_fitness > 0, an attempt of select adds its candidate to the
\* chosen animats exactly when its acceptance draw u / PyDen is at most
\* candidate.fitness.value / max_fitness, and otherwise adds nothing; so a
\* candidate of maximum fitness is always accepted, and a candidate of
\* fitness 0 only when the acceptance draw is exactly 0.
C20_AcceptanceRule ==
    [][(pc = "select" /\ pc' = "select" /\ self'.random # self.random
          /\ sel.max_fitness > 0)
         => LET candidate ==
                    sel.animats[ChoiceOut(self.random, Len(sel.animats))]
                u == RandomOut(PyNext(self.random))
                value == agents[candidate].fitness.value
                accepted == sel'.chosen # sel.chosen
            IN /\ accepted <=> u * sel.max_fitness <= value * PyDen
               /\ sel'.chosen = IF accepted THEN Append(sel.chosen, candidate)
                                ELSE sel.chosen
               /\ value = sel.max_fitness => accepted
               /\ (value = 0 /\ accepted) => u = 0]_vars

\* select has returned an animat of fitness 0 from a population whose maximum
\* fitness is positive
C20_Witness ==
    /\ pc = "returned"
    /\ sel.max_fitness > 0
    /\ \E i \in 1 .. Len(sel.chosen) :
          agents[sel.chosen[i]].fitness.value = 0

\* C21: a complete checkpoint file is a snapshot of one generation boundary.
\* Its generation field is the generation number of every animat of its
\* population; its logbook's last record is of that generation or an earlier
\* one; its population, logbook and generator states are those the
\* uninterrupted run had right after evaluating and recording that
\* generation; and while run has not begun the next generation they are the
\* live ones.
C21_SnapshotConsistent ==
    file.kind = "valid"
    => LET checkpoint == file.content
           g == checkpoint.generation
           tips == checkpoint.population.tips
       IN /\ g >= 1
          /\ \A a \in Range(tips) : checkpoint.population.nodes[a].gen = g
          /\ checkpoint.logbook # <<>>
               => checkpoint.logbook[Len(checkpoint.logbook)].gen <= g
          /\ g \in DOMAIN hist
               => /\ tips = hist[g].population
                  /\ checkpoint.logbook = hist[g].logbook
                  /\ checkpoint.python_rng_state = hist[g].python_rng
                  /\ checkpoint.c_rng_state = hist[g].c_rng
          /\ (pc = "loop" /\ runs = 1 /\ self.generation = g)
               => /\ tips = self.population
                  /\ checkpoint.logbook = self.logbook
                  /\ checkpoint.python_rng_state = self.random
                  /\ checkpoint.c_rng_state = c_rng

\* a checkpoint of generation 1 on disk while the run is mutating the
\* offspring of generation 2, both generators having moved on
C21_Witness ==
    /\ file.kind = "valid"
    /\ file.content.generation = 1
    /\ pc = "mutate"
    /\ gen = 2
    /\ mi > 1
    /\ ~resumed
    /\ self.random # file.content.python_rng_state
    /\ c_rng # file.content.c_rng_state

(***************************************************************************)
(* analyze.get_lods and analyze.get_final_correct                          *)
(***************************************************************************)
(* A path is the sequence of its components and a file name the sequence   *)
(* of its pieces.  The raw results are not written by these functions: the *)
(* value a raw logbook holds is named by where it is read from.            *)
(***************************************************************************)
MaxCalls == 2         \* at most MaxCalls calls are made one after another
LogLen == 3           \* a raw logbook holds LogLen records

CASE_NAME == "0.0.10/sp/3-4-6-5/sensors-3/jumpstart-0/gen-4000"
RESULT_DIR == "raw_results"
ANALYSIS_DIR == "compiled_results"
RESULT_PATH == <<RESULT_DIR, CASE_NAME>>

Cases == {"case-a", "case-b"}
SeedList == <<0, 1>>
GenIntervals == {1, 2}
Chapters == {"fitness", "correct"}
Stats == {"max", "avg"}

\* '{}'.format(n) for the numbers used
Str(n) == CASE n = 0 -> "0" [] n = 1 -> "1" [] n = 2 -> "2" [] n = 3 -> "3"

\* logbook.chapters[chapter].select(stat) of the raw logbook of a seed under
\* input_filepath: one value per record
Select(input_filepath, seed, chapter, stat) ==
    [i \in 1 .. LogLen |->
        [dir |-> input_filepath, seed |-> seed, chapter |-> chapter,
         stat |-> stat, index |-> i - 1]]

\* s[::step]
Slice(s, step) ==
    [i \in 1 .. ((Len(s) + step - 1) \div step) |-> s[(i - 1) * step + 1]]

\* load('params', input_filepath): seed keeps its default 0
LoadParams(input_filepath) ==
    [dir |-> input_filepath, seed |-> 0, filename |-> "params.pkl"]

\* pickle.dump(data, f) on a file opened 'wb', and pickle.load of such a file
Pickled(d) == [kind |-> "pickle", data |-> d]

Unpickled(content) == content.data

\* lines 97-100: the paths get_final_correct reads raw data from and keeps
\* its compiled data at
FinalInputPath(case_name) == RESULT_PATH \o <<case_name>>

FinalOutputPath(case_name) ==
    <<ANALYSIS_DIR, case_name, <<"final-correct-counts.pkl">>>>

\* lines 107-111: the data get_final_correct computes from the raw results
FinalData(case_name) ==
    [correct_counts |->
        [i \in 1 .. Len(SeedList) |->
            Select(FinalInputPath(case_name), SeedList[i],
                   "correct", "correct")[LogLen]],
     params |-> LoadParams(FinalInputPath(case_name))]

\* lines 141-148: the paths of get_lods
LodsInputPath(case_name) == <<RESULT_DIR, case_name>>

LodsOutputPath(case_name, gen_interval, seed, all_seeds, chapter, stat) ==
    <<ANALYSIS_DIR, case_name,
      (IF all_seeds THEN <<"all-lods-", chapter, "-", stat>>
       ELSE <<"lods-seed-", Str(seed)>>)
          \o <<"-every-", Str(gen_interval), "-gen.pkl">>>>

\* lines 156-164: the data get_lods computes from the raw results
LodsData(case_name, gen_interval, seed, all_seeds, chapter, stat) ==
    LET input_filepath == LodsInputPath(case_name)
        seeds == IF all_seeds THEN SeedList ELSE <<seed>>
    IN [lods |-> [i \in 1 .. Len(seeds) |->
                    Slice(Select(input_filepath, seeds[i], chapter, stat),
                          gen_interval)],
        params |-> LoadParams(input_filepath)]

\* lines 101-104 and 149-152: whether the compiled file is used
UseCompiled(output_filepath, force) ==
    output_filepath \in DOMAIN compiled /\ ~force

\* the files after the body of either function has run with the given output
\* path and the data computed from the raw results, and what the call returns
FilesAfter(output_filepath, force, computed) ==
    IF UseCompiled(output_filepath, force) THEN compiled
    ELSE (output_filepath :> Pickled(computed)) @@ compiled

Returned(output_filepath, force, computed) ==
    IF UseCompiled(output_filepath, force)
    THEN Unpickled(compiled[output_filepath])
    ELSE computed

InitAnalyze ==
    /\ call = [n |-> 0, request |-> None, result |-> None]
    /\ compiled = <<>>
    /\ \E r \in FreshRandom :
        self = Evolution([ngen |-> 0, popsize |-> 0, log_interval |-> 1,
                          min_checkpoints |-> 0, checkpoint_frequency |-> 0],
                         <<>>, <<>>, 0, 0, 0, r)
    /\ agents = <<>>
    /\ c_rng = 0
    /\ file = NoFile
    /\ now = 0
    /\ pc = "analyze"
    /\ gen = 0
    /\ last_checkpoint = 0
    /\ sel = NoSel
    /\ offspring = <<>>
    /\ mi = 0
    /\ data = None
    /\ err = ""
    /\ saves = 0
    /\ resumed = FALSE
    /\ resumes = 0
    /\ runs = 0
    /\ hist = <<>>

\* get_final_correct(case_name, force)
GetFinalCorrect ==
    /\ pc = "analyze"
    /\ call.n < MaxCalls
    /\ \E case_name \in Cases, force \in BOOLEAN :
        LET output_filepath == FinalOutputPath(case_name)
            computed == FinalData(case_name)
        IN /\ compiled' = FilesAfter(output_filepath, force, computed)
           /\ call' = [n |-> call.n + 1,
                       request |-> [function |-> "get_final_correct",
                                    case_name |-> case_name,
                                    force |-> force],
                       result |-> Returned(output_filepath, force, computed)]
    /\ UNCHANGED <<self, agents, c_rng, file, now, pc, gen, last_checkpoint,
                   sel, offspring, mi, data, err, saves, resumed, resumes,
                   runs, hist>>

\* get_lods(case_name, force, gen_interval, seed, all_seeds, chapter, stat)
GetLods ==
    /\ pc = "analyze"
    /\ call.n < MaxCalls
    /\ \E case_name \in Cases, force \in BOOLEAN,
          gen_interval \in GenIntervals, seed \in Range(SeedList),
          all_seeds \in BOOLEAN, chapter \in Chapters, stat \in Stats :
        LET output_filepath ==
                LodsOutputPath(case_name, gen_interval, seed, all_seeds,
                               chapter, stat)
            computed ==
                LodsData(case_name, gen_interval, seed, all_seeds, chapter,
                         stat)
        IN /\ compiled' = FilesAfter(output_filepath, force, computed)
           /\ call' = [n |-> call.n + 1,
                       request |-> [function |-> "get_lods",
                                    case_name |-> case_name,
                                    force |-> force,
                                    gen_interval |-> gen_interval,
                                    seed |-> seed,
                                    all_seeds |-> all_seeds,
                                    chapter |-> chapter,
                                    stat |-> stat],
                       result |-> Returned(output_filepath, force, computed)]
    /\ UNCHANGED <<self, agents, c_rng, file, now, pc, gen, last_checkpoint,
                   sel, offspring, mi, data, err, saves, resumed, resumes,
                   runs, hist>>

NextAnalyze ==
    \/ GetFinalCorrect
    \/ GetLods

SpecAnalyze == InitAnalyze /\ [][NextAnalyze]_vars

\* the data derived from the raw results for the parameters of a request, and
\* the compiled file the request is served from
DerivedFor(request) ==
    IF request.function = "get_lods"
    THEN LodsData(request.case_name, request.gen_interval, request.seed,
                  request.all_seeds, request.chapter, request.stat)
    ELSE FinalData(request.case_name)

OutputPathFor(request) ==
    IF request.function = "get_lods"
    THEN LodsOutputPath(request.case_name, request.gen_interval,
                        request.seed, request.all_seeds, request.chapter,
                        request.stat)
    ELSE FinalOutputPath(request.case_name)

\* C22: in any sequence of get_lods and get_final_correct calls, a call with
\* force=False whose compiled file exists returns the file's content and
\* writes nothing; a call with force=True or whose file is absent writes the
\* data computed from the raw results to that file and to no other; and the
\* data a call returns is the data derived for its own parameters.
C22_CacheOrRecompute ==
    [][call'.n = call.n + 1
         => LET request == call'.request
                output_filepath == OutputPathFor(request)
                existed == output_filepath \in DOMAIN compiled
            IN /\ (existed /\ ~request.force)
                    => /\ compiled' = compiled
                       /\ call'.result = Unpickled(compiled[output_filepath])
               /\ (request.force \/ ~existed)
                    => compiled' = (output_filepath
                                      :> Pickled(DerivedFor(request)))
                                   @@ compiled
               /\ call'.result = DerivedFor(request)]_vars

====
